---- MODULE Spec2Model ----
(***************************************************************************)
(* Model of the Telegram bot of src/flask_app.py (and its first version,   *)
(* src/app.py): the phrase pipeline of one chat scope                      *)
(*   process_phrases_from_xlsx  (spreadsheet rows -> phrases_<chat_id>)    *)
(*   search_ads_task            (external search call per stored phrase)   *)
(*   clear_phrases_task         (bulk delete of the scope)                 *)
(* and the webhook handlers, which run concurrently.                       *)
(*                                                                         *)
(* The pipeline runs one task at a time on the chat scope: each task is    *)
(* stepped row by row (import) or external call by external call (search); *)
(* the clear task is one step.                                             *)
(* Store failures (SQLAlchemy exceptions) are injected nondeterministically*)
(* at the calls that can raise, at most MaxFaults times in a run.          *)
(***************************************************************************)
EXTENDS Integers, Sequences, FiniteSets, TLC

(***************************************************************************)
(* Bounds of the model.                                                    *)
(***************************************************************************)
MaxRows == 3        \* longest imported table
MaxFaults == 1      \* store failures injected in one run
MaxRequests == 2    \* webhook requests handled at the same time

(***************************************************************************)
(* Program constants.                                                      *)
(***************************************************************************)
max_total_retries == 5
max_preset_retries == 3
max_required_idx == 5
LogEvery == 100
NotifyEvery == 1000

VARIABLES
  store,            \* committed rows of phrases_<chat_id>: phrase -> row
  task,             \* "idle", "import" or "search": the task running on the scope
  faults,           \* store failures injected so far
  phraseTable,      \* the table phrases_<chat_id> exists in the database
  \* ---- process_phrases_from_xlsx
  store0,           \* the rows of the scope when the running/last import began
  columns,          \* len(df.columns) as read by the running/last import
  total_rows,       \* len(data_slice)
  df,               \* the rows of data_slice iterated so far
  processed_count,
  phrases_added,
  phrases_updated,
  importMsgs,       \* send_message calls of the running/last import
  importResult,     \* how the last import ended
  \* ---- search_ads_task
  phrases,          \* result of query(PhraseModel).all()
  i,                \* 1-based index of the phrase being processed
  pc,               \* "loop": in the retry loop, "post": after it
  total_retries,
  preset_retries,
  success,
  response_data,
  calls,            \* external calls made for the current phrase
  endpoint,         \* how the external endpoint behaves for the current phrase
  last,             \* outcome of the latest external call of the current phrase
  updated_count,
  errors,
  summary,          \* the final summary message of the last search task
  \* ---- clear_phrases_task
  clearResult,      \* how the last clear task ended, with the message it sent
  \* ---- webhook
  users,            \* rows of the users table of each application, in insertion order
  tablesExist,      \* flask_app: the users table exists in the database
  tablesCache,      \* flask_app: _tables_exist_cache["main_tables_exist"]
  hook,             \* the webhook requests being handled, one per thread
  response          \* the latest response sent by the webhook handler

importVars == <<store0, columns, total_rows, df, processed_count, phrases_added, phrases_updated, importMsgs, importResult>>
loopVars == <<total_retries, preset_retries, success, response_data, calls, endpoint, last>>
searchVars == <<phrases, i, pc, loopVars, updated_count, errors, summary>>
hookVars == <<users, tablesExist, tablesCache, hook, response>>
vars == <<store, task, faults, phraseTable, importVars, searchVars, clearResult, hookVars>>

(***************************************************************************)
(* Cells of the spreadsheet.  A text cell is missing (NaN) or a sequence   *)
(* of characters/tokens, " " being white space.  A count cell is missing,  *)
(* a number (kept in tenths, so that 57 is the float 5.7) or a text.       *)
(***************************************************************************)
NaN == [na |-> TRUE, s |-> <<>>]
Txt(s) == [na |-> FALSE, s |-> s]
NoCount == [k |-> "nan", v |-> 0, s |-> <<>>]
NumCount(tenths) == [k |-> "num", v |-> tenths, s |-> <<>>]
TxtCount(s) == [k |-> "str", v |-> 0, s |-> s]

RECURSIVE LStrip(_)
LStrip(s) == IF s # <<>> /\ Head(s) = " " THEN LStrip(Tail(s)) ELSE s

RECURSIVE RStrip(_)
RStrip(s) == IF s # <<>> /\ s[Len(s)] = " " THEN RStrip(SubSeq(s, 1, Len(s) - 1)) ELSE s

\* str.strip()
Strip(s) == RStrip(LStrip(s))

\* str(x).strip() if pd.notna(x) else ""
CellText(c) == IF c.na THEN <<>> ELSE Strip(c.s)

DigitVal(ch) ==
  CASE ch = "0" -> 0 [] ch = "1" -> 1 [] ch = "2" -> 2 [] ch = "3" -> 3 [] ch = "4" -> 4
    [] ch = "5" -> 5 [] ch = "6" -> 6 [] ch = "7" -> 7 [] ch = "8" -> 8 [] ch = "9" -> 9
    [] OTHER -> -1

RECURSIVE DigitsValue(_, _)
DigitsValue(s, acc) ==
  IF s = <<>> THEN acc ELSE DigitsValue(Tail(s), 10 * acc + DigitVal(Head(s)))

\* float(text) accepts surrounding white space and (here) a run of digits;
\* anything else raises ValueError
FloatParses(s) ==
  /\ Strip(s) # <<>>
  /\ \A k \in 1..Len(Strip(s)) : DigitVal(Strip(s)[k]) >= 0

\* int(x) truncates towards zero
TruncTenths(t) == IF t >= 0 THEN t \div 10 ELSE -((-t) \div 10)

\* CoerceCount falling back to 0 where float() raises
CoerceCount_ZeroOnError(c) ==
  CASE c.k = "nan" -> [ok |-> TRUE, v |-> 0]
    [] c.k = "num" -> [ok |-> TRUE, v |-> TruncTenths(c.v)]
    [] OTHER -> [ok |-> TRUE, v |-> IF FloatParses(c.s) THEN DigitsValue(Strip(c.s), 0) ELSE 0]

\* int(float(qntyPerDay_raw)) if pd.notna(qntyPerDay_raw) else 0
\* [ok |-> FALSE] stands for the ValueError raised by float()
CoerceCount(c) ==
  CASE c.k = "nan" -> [ok |-> TRUE, v |-> 0]
    [] c.k = "num" -> [ok |-> TRUE, v |-> TruncTenths(c.v)]
    [] OTHER -> IF FloatParses(c.s)
                  THEN [ok |-> TRUE, v |-> DigitsValue(Strip(c.s), 0)]
                  ELSE [ok |-> FALSE, v |-> 0]

Row(p, q, s) == [phrase_raw |-> p, qntyPerDay_raw |-> q, subject_raw |-> s]

RowShoes == Row(Txt(<<"shoes">>), TxtCount(<<"1", "0", "0">>), Txt(<<"footwear">>))
RowEmpty == Row(Txt(<<>>), TxtCount(<<"5">>), Txt(<<"x">>))
RowHatsBad == Row(Txt(<<"hats">>), TxtCount(<<"b", "a", "d">>), Txt(<<"accessories">>))
RowHatsNoCount == Row(Txt(<<" ", "hats", " ">>), NoCount, Txt(<<"accessories", " ">>))
RowShoesNum == Row(Txt(<<"shoes">>), NumCount(57), NaN)

RowSet == {RowShoes, RowEmpty, RowHatsBad, RowHatsNoCount, RowShoesNum}

\* the table of the end-to-end example
ExampleTable == <<RowShoes, RowEmpty, RowHatsBad>>

(***************************************************************************)
(* Rows of phrases_<chat_id>.                                              *)
(***************************************************************************)
NULL == "NULL"

NewPhrase(qnty, subject) ==
  [qntyPerDay |-> qnty, subject |-> subject, preset |-> 0, normQuery |-> NULL,
   auto |-> 0, auction |-> 0, total |-> 0]

Put(st, key, row) == [k \in DOMAIN st \cup {key} |-> IF k = key THEN row ELSE st[k]]


(***************************************************************************)
(* process_phrases_from_xlsx: the body of the row loop for one row.        *)
(* fault is the store call that raises in this row: "none", "get"          *)
(* (db.session.get) or "commit" (db.session.commit).  The result tells how *)
(* the iteration ends: "empty" and "error" end in `continue`, "committed"  *)
(* falls through to the progress report.  The counters are incremented     *)
(* before the commit, as in the code.                                      *)
(***************************************************************************)
\* ProcessRow without the test for an empty phrase
ProcessRow_NoEmptySkip(st, row, fault) ==
  LET phrase == CellText(row.phrase_raw)
      qnty == CoerceCount(row.qntyPerDay_raw)
      subject == CellText(row.subject_raw)
      is_new == phrase \notin DOMAIN st
  IN  IF ~qnty.ok \/ fault # "none"
        THEN [store |-> st, added |-> 0, updated |-> 0, outcome |-> "error"]
        ELSE [store |-> Put(st, phrase, NewPhrase(qnty.v, subject)),
              added |-> IF is_new THEN 1 ELSE 0,
              updated |-> IF is_new THEN 0 ELSE 1,
              outcome |-> "committed"]

\* ProcessRow updating qntyPerDay and subject of an existing row in place
ProcessRow_Merge(st, row, fault) ==
  LET phrase == CellText(row.phrase_raw)
      qnty == CoerceCount(row.qntyPerDay_raw)
      subject == CellText(row.subject_raw)
      is_new == phrase \notin DOMAIN st
      same(o) == [store |-> st, added |-> 0, updated |-> 0, outcome |-> o]
  IN  IF phrase = <<>> THEN same("empty")
      ELSE IF ~qnty.ok \/ fault = "get" THEN same("error")
      ELSE [store |-> IF fault = "commit" THEN st
                      ELSE IF is_new THEN Put(st, phrase, NewPhrase(qnty.v, subject))
                      ELSE [st EXCEPT ![phrase].qntyPerDay = qnty.v, ![phrase].subject = subject],
            added |-> IF is_new THEN 1 ELSE 0,
            updated |-> IF is_new THEN 0 ELSE 1,
            outcome |-> IF fault = "commit" THEN "error" ELSE "committed"]

\* ProcessRow with one transaction for the whole file: the rollback of a
\* row error discards the rows processed before it
ProcessRow_OneTransaction(st, row, fault) ==
  LET phrase == CellText(row.phrase_raw)
      qnty == CoerceCount(row.qntyPerDay_raw)
      subject == CellText(row.subject_raw)
      is_new == phrase \notin DOMAIN st
  IN  IF phrase = <<>> THEN [store |-> st, added |-> 0, updated |-> 0, outcome |-> "empty"]
      ELSE IF ~qnty.ok \/ fault # "none"
        THEN [store |-> store0, added |-> 0, updated |-> 0, outcome |-> "error"]
      ELSE [store |-> Put(st, phrase, NewPhrase(qnty.v, subject)),
            added |-> IF is_new THEN 1 ELSE 0,
            updated |-> IF is_new THEN 0 ELSE 1,
            outcome |-> "committed"]

ProcessRow(st, row, fault) ==
  LET phrase == CellText(row.phrase_raw)
      qnty == CoerceCount(row.qntyPerDay_raw)
      subject == CellText(row.subject_raw)
      is_new == phrase \notin DOMAIN st
      same(o) == [store |-> st, added |-> 0, updated |-> 0, outcome |-> o]
  IN  IF phrase = <<>> THEN same("empty")
      ELSE IF ~qnty.ok THEN same("error")
      ELSE IF fault = "get" THEN same("error")
      ELSE [store |-> IF fault = "commit" THEN st ELSE Put(st, phrase, NewPhrase(qnty.v, subject)),
            added |-> IF is_new THEN 1 ELSE 0,
            updated |-> IF is_new THEN 0 ELSE 1,
            outcome |-> IF fault = "commit" THEN "error" ELSE "committed"]

\* the store calls of one row that may raise
RowFaults(st, row) ==
  IF CellText(row.phrase_raw) = <<>> \/ ~CoerceCount(row.qntyPerDay_raw).ok
    THEN {"none"} ELSE {"none", "get", "commit"}

ProgressMsg(n, added, updated) ==
  [kind |-> "progress", processed |-> n, added |-> added, updated |-> updated]

AbortMsg(n, added, updated) ==
  [kind |-> "abort", processed |-> n, added |-> added, updated |-> updated]

\* lines 319-323: the messages sent after row n of total; reached only
\* when the iteration did not `continue`
ProgressReport(outcome, n, total, added, updated) ==
  IF outcome = "committed"
     /\ (n % LogEvery = 0 \/ n = total)
     /\ (n % NotifyEvery = 0 \/ n = total)
    THEN <<ProgressMsg(n, added, updated)>>
    ELSE <<>>

NoResult == [kind |-> "none", error |-> "none", added |-> 0, updated |-> 0, total |-> 0]
Returned(a, u, t) == [kind |-> "returned", error |-> "none", added |-> a, updated |-> u, total |-> t]
Raised(e, a, u, t) == [kind |-> "raised", error |-> e, added |-> a, updated |-> u, total |-> t]

(***************************************************************************)
(* search_ads_task: responses of the external endpoint.                    *)
(***************************************************************************)
NoResponse == [err |-> "unset", total |-> 0, preset |-> 0, normquery |-> NULL, products |-> <<>>]

Answer(t, p) ==
  [err |-> "none", total |-> t, preset |-> p,
   normquery |-> IF p = 0 THEN NULL ELSE "nq",
   products |-> IF t = 0 THEN <<>> ELSE <<"c", "b", "c", "x">>]

Failure(e) == [err |-> e, total |-> 0, preset |-> 0, normquery |-> NULL, products |-> <<>>]

Answers == {Answer(t, p) : t \in {0, 7}, p \in {0, 3}}
Failures == {Failure(e) : e \in {"RequestException", "JSONDecodeError", "Exception"}}
Responses == Answers \cup Failures

(***************************************************************************)
(* The external endpoint, as the phrase's retry loop sees it: what it may  *)
(* answer to the n-th call.                                                *)
(*   "any"         any answer or failure at every call                     *)
(*   "zero_total"  total = 0 at every call                                 *)
(*   "late_preset" total # 0 throughout, preset = 0 at the first two calls *)
(*                 and non-zero from the third on                          *)
(***************************************************************************)
Endpoints == {"any", "zero_total", "late_preset"}

Serve(e, n) ==
  CASE e = "zero_total" -> {a \in Answers : a.total = 0}
    [] e = "late_preset" -> {a \in Answers : a.total # 0 /\ (a.preset = 0 <=> n <= 2)}
    [] OTHER -> Responses

\* Decide with one total-retry less (tr + 1 < max instead of tr < max)
Decide_OneRetryLess(total, preset, tr, pr) ==
  IF total = 0 /\ tr + 1 < max_total_retries THEN "retry_total"
  ELSE IF preset = 0 /\ pr < max_preset_retries THEN "retry_preset"
  ELSE "accept"

\* Decide retrying on total = 0 whatever is left of the budget
Decide_BudgetNotTested(total, preset, tr, pr) ==
  IF total = 0 THEN "retry_total"
  ELSE IF preset = 0 /\ pr < max_preset_retries THEN "retry_preset"
  ELSE "accept"

\* Decide retrying on the preset budget whatever the preset is
Decide_PresetNotTested(total, preset, tr, pr) ==
  IF total = 0 /\ tr < max_total_retries THEN "retry_total"
  ELSE IF pr < max_preset_retries THEN "retry_preset"
  ELSE "accept"

\* lines 462-472: what one decoded response does to the retry loop
Decide(total, preset, tr, pr) ==
  IF total = 0 /\ tr < max_total_retries THEN "retry_total"
  ELSE IF preset = 0 /\ pr < max_preset_retries THEN "retry_preset"
  ELSE "accept"

\* line 440: the condition of the while loop
LoopCondition(ok, tr, pr) ==
  ~ok /\ (tr < max_total_retries \/ pr < max_preset_retries)

\* Iteration retrying after a failed call instead of breaking
Iteration_RetryOnFailure(resp, tr, pr) ==
  IF resp.err # "none"
    THEN [total_retries |-> IF tr < max_total_retries THEN tr + 1 ELSE tr,
          preset_retries |-> IF tr < max_total_retries THEN pr ELSE max_preset_retries,
          success |-> FALSE, broke |-> FALSE, error |-> "none"]
    ELSE LET d == Decide(resp.total, resp.preset, tr, pr)
         IN [total_retries |-> IF d = "retry_total" THEN tr + 1 ELSE tr,
             preset_retries |-> IF d = "retry_preset" THEN pr + 1 ELSE pr,
             success |-> (d = "accept"),
             broke |-> FALSE, error |-> "none"]

\* lines 441-485: one iteration of the retry loop on the outcome resp of
\* the external call; broke tells that the iteration ended in `break`,
\* error is the kind of the entry appended to errors
Iteration(resp, tr, pr) ==
  IF resp.err # "none"
    THEN [total_retries |-> tr, preset_retries |-> pr, success |-> FALSE,
          broke |-> TRUE, error |-> resp.err]
    ELSE LET d == Decide(resp.total, resp.preset, tr, pr)
         IN [total_retries |-> IF d = "retry_total" THEN tr + 1 ELSE tr,
             preset_retries |-> IF d = "retry_preset" THEN pr + 1 ELSE pr,
             success |-> (d = "accept"),
             broke |-> FALSE, error |-> "none"]

RECURSIVE CountTag(_, _)
CountTag(products, tag) ==
  IF products = <<>> THEN 0
  ELSE (IF Head(products) = tag THEN 1 ELSE 0) + CountTag(Tail(products), tag)

\* lines 493-515: the fields written onto phrase_obj
Enriched(row, data) ==
  [row EXCEPT !.auction = CountTag(data.products, "c"),
              !.auto = CountTag(data.products, "b"),
              !.total = data.total,
              !.normQuery = data.normquery,
              !.preset = data.preset]

ErrorEntry(phrase, kind) == [phrase |-> phrase, kind |-> kind]

\* AfterLoop with one transaction for the whole task: a failed commit
\* discards what was written onto the phrases before
AfterLoop_OneTransaction(st, phrase, ok, data, commit) ==
  IF ~ok
    THEN [store |-> st, errors |-> <<ErrorEntry(phrase, "after_retries")>>, updated |-> 0]
  ELSE IF commit = "raises"
    THEN [store |-> [p \in DOMAIN st |-> NewPhrase(st[p].qntyPerDay, st[p].subject)],
          errors |-> <<ErrorEntry(phrase, "data")>>, updated |-> 0]
  ELSE [store |-> [st EXCEPT ![phrase] = Enriched(st[phrase], data)], errors |-> <<>>, updated |-> 1]

\* lines 487-533: what follows the retry loop of one phrase; commit is "ok"
\* or "raises" (db.session.commit() of line 517)
AfterLoop(st, phrase, ok, data, commit) ==
  IF ~ok
    THEN [store |-> st, errors |-> <<ErrorEntry(phrase, "after_retries")>>, updated |-> 0]
  ELSE IF commit = "raises"
    THEN [store |-> st, errors |-> <<ErrorEntry(phrase, "data")>>, updated |-> 0]
  ELSE [store |-> [st EXCEPT ![phrase] = Enriched(st[phrase], data)], errors |-> <<>>, updated |-> 1]

NoSummary == [kind |-> "none", processed |-> 0, updated |-> 0, errors |-> 0]

(***************************************************************************)
(* get_personal_phrase_model(chat_id), lines 129-149, calls                *)
(* create_personal_phrase_table(chat_id), lines 91-112: the table          *)
(* phrases_<chat_id> is created, empty, when the inspector does not list   *)
(* it.  inspect is "ok" or "raises" (inspector.get_table_names()).         *)
(***************************************************************************)
create_personal_phrase_table(exists, inspect) ==
  IF inspect = "raises" THEN [exists |-> exists, raised |-> TRUE]
  ELSE [exists |-> TRUE, raised |-> FALSE]

(***************************************************************************)
(* clear_phrases_task: how it ends.  kind is the message sent last:        *)
(* "already_empty" (line 569), "cleared" with the deleted count (line 577) *)
(* or "error" (line 583).                                                  *)
(***************************************************************************)
NoClear == [kind |-> "none", deleted |-> 0]
AlreadyEmpty == [kind |-> "already_empty", deleted |-> 0]
Cleared(n) == [kind |-> "cleared", deleted |-> n]
ClearError == [kind |-> "error", deleted |-> 0]


(***************************************************************************)
(* Initial state: an empty chat scope, no task running.                    *)
(***************************************************************************)
EmptyStore == [k \in {} |-> NewPhrase(0, <<>>)]

ImportIdle ==
  /\ store0 = EmptyStore
  /\ columns = 0
  /\ total_rows = 0
  /\ df = <<>>
  /\ processed_count = 0
  /\ phrases_added = 0
  /\ phrases_updated = 0
  /\ importMsgs = <<>>
  /\ importResult = NoResult

LoopReset ==
  /\ total_retries = 0
  /\ preset_retries = 0
  /\ success = FALSE
  /\ response_data = NoResponse
  /\ calls = 0
  /\ endpoint = "any"
  /\ last = NoResponse

SearchIdle ==
  /\ phrases = <<>>
  /\ i = 0
  /\ pc = "none"
  /\ LoopReset
  /\ updated_count = 0
  /\ errors = <<>>
  /\ summary = NoSummary

Apps == {"flask_app", "app"}
Chats == {"c1", "c2"}

\* what a POST may carry
Bodies == {"not_json", "malformed", "empty_object", "no_message", "no_chat",
           "start", "text", "document"}

NoRequest == [app |-> "flask_app", body |-> "empty_object", chat |-> "c1", pc |-> "idle"]
NoReply == [app |-> "flask_app", status |-> 0]

Requests == 1..MaxRequests

HookIdle ==
  /\ users = [a \in Apps |-> <<>>]
  /\ tablesExist = FALSE
  /\ tablesCache = "unset"
  /\ hook = [r \in Requests |-> NoRequest]
  /\ response = NoReply

Init ==
  /\ store = EmptyStore
  /\ task = "idle"
  /\ faults = 0
  /\ phraseTable = FALSE
  /\ clearResult = NoClear
  /\ ImportIdle
  /\ SearchIdle
  /\ HookIdle

\* lines 433-438: the locals of the retry loop, set for each phrase
LoopSetUp(e) ==
  /\ total_retries' = 0
  /\ preset_retries' = 0
  /\ success' = FALSE
  /\ response_data' = NoResponse
  /\ calls' = 0
  /\ endpoint' = e
  /\ last' = NoResponse

\* no task function is running and none has left locals behind
NoTask ==
  /\ task = "idle"
  /\ ImportIdle
  /\ SearchIdle
  /\ clearResult = NoClear

\* the locals of a task are gone once it has returned
ImportForgotten ==
  /\ store0' = EmptyStore
  /\ columns' = 0
  /\ total_rows' = 0
  /\ df' = <<>>
  /\ processed_count' = 0
  /\ phrases_added' = 0
  /\ phrases_updated' = 0
  /\ importMsgs' = <<>>
  /\ importResult' = NoResult

SearchForgotten ==
  /\ phrases' = <<>>
  /\ i' = 0
  /\ pc' = "none"
  /\ LoopSetUp("any")
  /\ updated_count' = 0
  /\ errors' = <<>>
  /\ summary' = NoSummary

(***************************************************************************)
(* process_phrases_from_xlsx(df, chat_id), lines 211-247: the column check *)
(* and the empty table.  ncols is len(df.columns), nrows is len(df); the   *)
(* rows themselves are read one by one as the loop iterates over them.     *)
(***************************************************************************)
\* EnoughColumns accepting a table of max_required_idx columns
EnoughColumns_OffByOne(ncols) == ncols >= max_required_idx

\* line 224: the test of the column count (columns 0, 3 and 5 are read)
EnoughColumns(ncols) == ~(max_required_idx >= ncols)

ImportStart(nrows, ncols) ==
  /\ NoTask
  /\ SearchForgotten
  /\ clearResult' = NoClear
  /\ UNCHANGED <<store, hookVars>>
  /\ store0' = store
  /\ columns' = ncols
  /\ processed_count' = 0
  /\ phrases_added' = 0
  /\ phrases_updated' = 0
  /\ importMsgs' = <<>>
  /\ df' = <<>>
  /\ UNCHANGED faults
  /\ phraseTable' = create_personal_phrase_table(phraseTable, "ok").exists
  /\ IF ~EnoughColumns(ncols)
       THEN /\ total_rows' = 0
            /\ importResult' = Raised("ValueError", 0, 0, 0)
            /\ task' = "idle"
       ELSE /\ total_rows' = nrows
            /\ IF nrows = 0
                 THEN importResult' = Returned(0, 0, 0) /\ task' = "idle"
                 ELSE importResult' = NoResult /\ task' = "import"

(***************************************************************************)
(* process_phrases_from_xlsx when get_personal_phrase_model (line 219)     *)
(* raises: the inspector fails before the table df is looked at, and the   *)
(* exception leaves the function.                                          *)
(***************************************************************************)
ImportLookupFails ==
  /\ NoTask
  /\ faults < MaxFaults
  /\ faults' = faults + 1
  /\ SearchForgotten
  /\ clearResult' = NoClear
  /\ UNCHANGED <<store, hookVars, task>>
  /\ phraseTable' = create_personal_phrase_table(phraseTable, "raises").exists
  /\ store0' = store
  /\ columns' = 0
  /\ total_rows' = 0
  /\ df' = <<>>
  /\ processed_count' = 0
  /\ phrases_added' = 0
  /\ phrases_updated' = 0
  /\ importMsgs' = <<>>
  /\ importResult' = Raised("StoreError", 0, 0, 0)

(***************************************************************************)
(* One iteration of the row loop, lines 254-323, with what follows the     *)
(* last iteration (lines 332-333) and the outer handler (lines 325-330).   *)
(* The per-row handlers call db.session.rollback(); when that raises, the  *)
(* exception leaves the loop and reaches the outer handler, which rolls    *)
(* back again, reports and re-raises.                                      *)
(***************************************************************************)
ImportRow ==
  /\ task = "import"
  /\ processed_count < total_rows
  /\ UNCHANGED <<searchVars, hookVars, store0, columns, total_rows, phraseTable, clearResult>>
  /\ LET n == processed_count + 1
     IN \E row \in RowSet, fault \in {"none", "get", "commit"}, rollback \in {"ok", "raises", "raises_twice"} :
          LET r == ProcessRow(store, row, fault)
              added == phrases_added + r.added
              updated == phrases_updated + r.updated
              injected == (IF fault = "none" THEN 0 ELSE 1)
                          + (CASE rollback = "ok" -> 0 [] rollback = "raises" -> 1
                               [] OTHER -> 2)
          IN /\ faults + injected <= MaxFaults
             /\ fault \in RowFaults(store, row)
             /\ rollback # "ok" => r.outcome = "error"
             /\ df' = Append(df, row)
             /\ faults' = faults + injected
             /\ store' = r.store
             /\ processed_count' = n
             /\ phrases_added' = added
             /\ phrases_updated' = updated
             /\ IF rollback # "ok"
                  THEN /\ importMsgs' = IF rollback = "raises"
                                          THEN Append(importMsgs, AbortMsg(n, added, updated))
                                          ELSE importMsgs
                       /\ importResult' = Raised("StoreError", added, updated, n)
                       /\ task' = "idle"
                  ELSE /\ importMsgs' = importMsgs \o ProgressReport(r.outcome, n, total_rows, added, updated)
                       /\ IF n = total_rows
                            THEN importResult' = Returned(added, updated, n) /\ task' = "idle"
                            ELSE importResult' = importResult /\ task' = task

(***************************************************************************)
(* search_ads_task(chat_id), lines 390-438: the query and the set-up of    *)
(* the first phrase.  all() returns the rows in some order.                *)
(***************************************************************************)
Orders(S) == {o \in [1..Cardinality(S) -> S] : \A a, b \in 1..Cardinality(S) : a # b => o[a] # o[b]}

SearchStart ==
  /\ NoTask
  /\ ImportForgotten
  /\ clearResult' = NoClear
  /\ UNCHANGED <<store, hookVars>>
  /\ updated_count' = 0
  /\ errors' = <<>>
  /\ \/ /\ faults < MaxFaults
        /\ faults' = faults + 1
        /\ \E inspect \in {"ok", "raises"} :
             phraseTable' = create_personal_phrase_table(phraseTable, inspect).exists
        /\ LoopSetUp("any")
        /\ phrases' = <<>>
        /\ i' = 0
        /\ pc' = "none"
        /\ summary' = [NoSummary EXCEPT !.kind = "critical"]
        /\ task' = "idle"
     \/ /\ UNCHANGED faults
        /\ phraseTable' = create_personal_phrase_table(phraseTable, "ok").exists
        /\ \E order \in Orders(DOMAIN store) :
             /\ phrases' = order
             /\ IF order = <<>>
                  THEN /\ LoopSetUp("any")
                       /\ i' = 0
                       /\ pc' = "none"
                       /\ summary' = [NoSummary EXCEPT !.kind = "no_data"]
                       /\ task' = "idle"
                  ELSE /\ \E e \in Endpoints : LoopSetUp(e)
                       /\ i' = 1
                       /\ pc' = "loop"
                       /\ summary' = NoSummary
                       /\ task' = "search"

(***************************************************************************)
(* One iteration of the retry loop, lines 440-485: the external call and   *)
(* what its response does; then the loop condition is evaluated again.     *)
(***************************************************************************)
SearchCall ==
  /\ task = "search"
  /\ pc = "loop"
  /\ UNCHANGED <<store, task, faults, phraseTable, clearResult, importVars, hookVars, phrases, i, updated_count, summary, endpoint>>
  /\ \E resp \in Serve(endpoint, calls + 1) :
       LET it == Iteration(resp, total_retries, preset_retries)
       IN /\ calls' = calls + 1
          /\ last' = resp
          /\ response_data' = IF resp.err = "none" THEN resp ELSE response_data
          /\ total_retries' = it.total_retries
          /\ preset_retries' = it.preset_retries
          /\ success' = it.success
          /\ errors' = IF it.error = "none" THEN errors
                        ELSE Append(errors, ErrorEntry(phrases[i], it.error))
          /\ pc' = IF ~it.broke /\ LoopCondition(it.success, it.total_retries, it.preset_retries)
                     THEN "loop" ELSE "post"

(***************************************************************************)
(* After the retry loop, lines 487-533: a phrase without success is        *)
(* recorded as failed; otherwise the response is written onto the phrase   *)
(* and committed.  Then the next phrase is set up (lines 423-438) or the   *)
(* final summary is sent (lines 535-546).  When the commit raises, the     *)
(* handler of lines 530-533 records the error and rolls back; when that    *)
(* rollback raises too, the exception ends the task in the handler of      *)
(* lines 548-550.                                                          *)
(***************************************************************************)
SearchFinish ==
  /\ task = "search"
  /\ pc = "post"
  /\ UNCHANGED <<importVars, hookVars, phrases, phraseTable, clearResult>>
  /\ LET phrase_text == phrases[i]
     IN \E commit \in {"ok", "raises"}, rollback \in {"ok", "raises"} :
          /\ commit = "raises" => success
          /\ rollback = "raises" => commit = "raises"
          /\ LET injected == (IF commit = "raises" THEN 1 ELSE 0) + (IF rollback = "raises" THEN 1 ELSE 0)
             IN faults + injected <= MaxFaults /\ faults' = faults + injected
          /\ LET after == AfterLoop(store, phrase_text, success, response_data, commit)
                 errs == errors \o after.errors
                 upd == updated_count + after.updated
             IN /\ store' = after.store
                /\ errors' = errs
                /\ updated_count' = upd
                /\ IF rollback = "raises"
                     THEN /\ UNCHANGED i
                          /\ LoopSetUp("any")
                          /\ pc' = "none"
                          /\ summary' = [NoSummary EXCEPT !.kind = "critical"]
                          /\ task' = "idle"
                   ELSE IF i < Len(phrases)
                     THEN /\ i' = i + 1
                          /\ pc' = "loop"
                          /\ \E e \in Endpoints : LoopSetUp(e)
                          /\ UNCHANGED <<summary, task>>
                     ELSE /\ UNCHANGED i
                          /\ LoopSetUp("any")
                          /\ pc' = "none"
                          /\ summary' = [kind |-> "done", processed |-> Len(phrases),
                                         updated |-> upd, errors |-> Len(errs)]
                          /\ task' = "idle"

(***************************************************************************)
(* clear_phrases_task(chat_id), lines 553-583.  fault is the store call    *)
(* that raises: "none", "model" (get_personal_phrase_model), "count",      *)
(* "delete" or "commit"; every exception is caught at line 579, the        *)
(* session is rolled back and the error is reported to the user.           *)
(***************************************************************************)
\* ClearOutcome deleting the rows without the test for an empty table
ClearOutcome_NoEmptyTest(st, fault) ==
  IF fault # "none" THEN [store |-> st, result |-> ClearError]
  ELSE [store |-> EmptyStore, result |-> Cleared(Cardinality(DOMAIN st))]

ClearOutcome(st, fault) ==
  LET count_before == Cardinality(DOMAIN st)
  IN IF fault # "none" THEN [store |-> st, result |-> ClearError]
     ELSE IF count_before = 0 THEN [store |-> st, result |-> AlreadyEmpty]
     ELSE [store |-> EmptyStore, result |-> Cleared(count_before)]

ClearPhrases ==
  /\ NoTask
  /\ ImportForgotten
  /\ SearchForgotten
  /\ UNCHANGED <<task, hookVars>>
  /\ \E fault \in {"none", "model", "count", "delete", "commit"} :
       LET out == ClearOutcome(store, fault)
       IN /\ fault # "none" => faults < MaxFaults
          /\ fault \in {"delete", "commit"} => store # EmptyStore
          /\ faults' = IF fault = "none" THEN faults ELSE faults + 1
          /\ phraseTable' = create_personal_phrase_table(phraseTable,
                               IF fault = "model" THEN "raises" ELSE "ok").exists
          /\ store' = out.store
          /\ clearResult' = out.result

\* a table of up to max_required_idx + 1 columns and up to MaxRows rows is
\* imported; len(df) is not read when the column test fails
Import ==
  \/ \E ncols \in 0..(max_required_idx + 1) :
       \E nrows \in (IF EnoughColumns(ncols) THEN 0..MaxRows ELSE {MaxRows}) :
         ImportStart(nrows, ncols)
  \/ ImportLookupFails

(***************************************************************************)
(* The function of the finished task returns (lines 333, 550, 583): its    *)
(* result has been handed to the caller (line 678) or its thread ends      *)
(* (lines 648, 655), and its locals no longer exist.  The scope, the       *)
(* phrases table and the users stay as the task left them.                 *)
(***************************************************************************)
TaskReturn ==
  /\ task = "idle"
  /\ ~NoTask
  /\ ImportForgotten
  /\ SearchForgotten
  /\ clearResult' = NoClear
  /\ UNCHANGED <<store, task, faults, phraseTable, hookVars>>

Next ==
  \/ Import
  \/ ImportRow
  \/ SearchStart
  \/ SearchCall
  \/ SearchFinish
  \/ ClearPhrases
  \/ TaskReturn

Spec == Init /\ [][Next]_vars

(***************************************************************************)
(* search_ads_task alone, started on any scope that imports can leave      *)
(* behind.  The task runs in a thread of its own (line 648) that is never  *)
(* suspended for good: each external call returns or raises within its     *)
(* timeout (line 452) and each store call returns or raises, so a step of  *)
(* the task that is enabled is eventually taken.                           *)
(***************************************************************************)
StartStores ==
  {[p \in S |-> IF p = <<"shoes">> THEN NewPhrase(100, <<"footwear">>)
                                   ELSE NewPhrase(0, <<"accessories">>)] :
     S \in SUBSET {<<"shoes">>, <<"hats">>}}

InitSearch ==
  /\ store \in StartStores
  /\ task = "idle"
  /\ faults = 0
  /\ phraseTable = (store # EmptyStore)
  /\ clearResult = NoClear
  /\ ImportIdle
  /\ SearchIdle
  /\ HookIdle

NextSearch ==
  \/ SearchStart
  \/ SearchCall
  \/ SearchFinish
  \/ TaskReturn

SpecSearch ==
  InitSearch /\ [][NextSearch]_vars /\ WF_vars(SearchCall) /\ WF_vars(SearchFinish)

(***************************************************************************)
(* The webhook handlers: webhook() of flask_app.py (lines 586-696) and of  *)
(* app.py (lines 33-51).  The server handles up to MaxRequests requests at *)
(* the same time, each in its own thread with its own database session;    *)
(* the steps of different requests interleave.  A response has status 200  *)
(* when the handler returns its acknowledgment; an exception that leaves   *)
(* the handler is answered by Flask with 500, an HTTP exception raised by  *)
(* request.get_json() with its own status (400, 415).                      *)
(***************************************************************************)
pipelineVars == <<store, task, phraseTable, importVars, searchVars, clearResult>>

\* the response is sent and the thread is free again
Respond(r, status) ==
  /\ hook' = [hook EXCEPT ![r] = NoRequest]
  /\ response' = [app |-> hook[r].app, status |-> status]

Proceed(r, to) ==
  /\ hook' = [hook EXCEPT ![r].pc = to]
  /\ UNCHANGED response

\* message["from"]["username"]: each request carries its own
UsernameOf(r) == r

\* the chat_id column of the rows of a users table
ChatIds(rows) == {rows[k].chat_id : k \in 1..Len(rows)}

\* InsertUser on a table without the unique constraint
InsertUser_NotUnique(rows, chat, username) ==
  [rows |-> Append(rows, [chat_id |-> chat, username |-> username]), raised |-> FALSE]

\* db.session.add(User(chat_id, username)); db.session.commit() on the
\* table of class User, whose chat_id is unique (flask_app.py line 61,
\* app.py line 16): a second row with the same chat_id is refused by the
\* database and the commit raises IntegrityError
InsertUser(rows, chat, username) ==
  IF chat \in ChatIds(rows)
    THEN [rows |-> rows, raised |-> TRUE]
    ELSE [rows |-> Append(rows, [chat_id |-> chat, username |-> username]), raised |-> FALSE]

\* a POST arrives at the running application (one of the two files is
\* deployed: the requests in flight and the users rows belong to it) and is
\* given to the first free thread; its body is read by request.get_json()
Arrive(r, app) ==
  /\ hook[r].pc = "idle"
  /\ \A q \in Requests : q < r => hook[q].pc # "idle"
  /\ \A q \in Requests : hook[q].pc = "idle" \/ hook[q].app = app
  /\ \A a \in Apps \ {app} : users[a] = <<>>
  /\ hook' = [hook EXCEPT ![r] = [NoRequest EXCEPT !.app = app,
                                  !.pc = IF app = "flask_app" THEN "init" ELSE "parse"]]
  /\ UNCHANGED <<pipelineVars, faults, users, tablesExist, tablesCache, response>>

\* flask_app.py lines 151-184 and 589: initialize_database_if_needed()
\* inspect is "ok" or "raises" (inspector.get_table_names()), create is
\* "ok" or "raises" (db.create_all())
HookInitDb ==
  \E r \in Requests :
    /\ hook[r].pc = "init"
    /\ UNCHANGED <<pipelineVars, users>>
    /\ \E inspect \in {"ok", "raises"}, create \in {"ok", "raises"} :
         LET cached == tablesCache # "unset"
             injected == (IF inspect = "raises" THEN 1 ELSE 0) + (IF create = "raises" THEN 1 ELSE 0)
             exist == IF cached THEN tablesCache = "true"
                      ELSE IF inspect = "raises" THEN FALSE ELSE tablesExist
             cacheAfterCheck == IF cached \/ inspect = "raises" THEN tablesCache
                                ELSE IF tablesExist THEN "true" ELSE "false"
         IN /\ inspect = "raises" => ~cached
            /\ create = "raises" => ~exist
            /\ faults + injected <= MaxFaults
            /\ faults' = faults + injected
            /\ IF exist
                 THEN /\ tablesCache' = cacheAfterCheck
                      /\ UNCHANGED tablesExist
                      /\ Proceed(r, "parse")
                 ELSE IF create = "raises"
                   THEN /\ tablesCache' = cacheAfterCheck
                        /\ UNCHANGED tablesExist
                        /\ Respond(r, 500)
                   ELSE /\ tablesCache' = "unset"
                        /\ tablesExist' = TRUE
                        /\ Proceed(r, "parse")

\* request.get_json() and the tests that follow it: flask_app.py lines
\* 592-604, app.py lines 35-41.  The result is the status of the response,
\* or 0 when the handler goes on.  For a body that is not sent as JSON
\* get_json() returns None or raises 415, depending on the Flask version
\* (strict tells which); for a malformed JSON body it raises 400.
Parsed(app, body, strict) ==
  CASE body = "malformed" -> 400
    [] body = "not_json" -> IF strict THEN 415 ELSE IF app = "flask_app" THEN 200 ELSE 500
    [] body \in {"empty_object", "no_message", "no_chat"} -> 200
    [] OTHER -> 0

HookParse ==
  \E r \in Requests :
    /\ hook[r].pc = "parse"
    /\ UNCHANGED <<pipelineVars, faults, users, tablesExist, tablesCache>>
    /\ \E body \in Bodies, strict \in BOOLEAN :
         LET status == Parsed(hook[r].app, body, strict)
         IN IF status = 0
              THEN /\ hook' = [hook EXCEPT ![r].body = body, ![r].pc = "handle"]
                   /\ UNCHANGED response
              ELSE Respond(r, status)

\* the status after the message is handled, or 0 when a user row is to be
\* inserted first: flask_app.py lines 606-696 (every exception is caught at
\* line 692), app.py lines 43-51 (no exception is caught).  failure tells
\* that the store query, the file download or the outbound message raised
Handled(app, body, known, failure) ==
  IF app = "flask_app"
    THEN IF body = "start" /\ ~known /\ ~failure THEN 0 ELSE 200
    ELSE IF failure THEN 500 ELSE IF known THEN 200 ELSE 0

\* chat is message.chat.id of the body; known is the result of the query
\* of line 615 (app.py line 43), made in this step; the insert follows in a
\* later step of the request, which keeps the chat id and the username
HookHandle ==
  \E r \in Requests :
    /\ hook[r].pc = "handle"
    /\ UNCHANGED <<pipelineVars, users, tablesExist, tablesCache>>
    /\ \E chat \in Chats, failure \in BOOLEAN :
         LET known == chat \in ChatIds(users[hook[r].app])
             status == Handled(hook[r].app, hook[r].body, known, failure)
         IN /\ failure => faults < MaxFaults
            /\ faults' = IF failure THEN faults + 1 ELSE faults
            /\ IF status = 0
                 THEN /\ hook' = [hook EXCEPT ![r] = [NoRequest EXCEPT !.app = hook[r].app,
                                                     !.chat = chat, !.pc = "register"]]
                      /\ UNCHANGED response
                 ELSE Respond(r, status)

\* the insert of the user row: flask_app.py lines 621-642 (a failed commit
\* is rolled back and reported in the menu message), app.py lines 45-49
\* (a failed commit or send leaves the handler as an exception)
Registered(app, failure) == IF app = "app" /\ failure THEN 500 ELSE 200

HookRegister ==
  \E r \in Requests :
    /\ hook[r].pc = "register"
    /\ UNCHANGED <<pipelineVars, tablesExist, tablesCache>>
    /\ \E commit \in {"ok", "raises"}, send \in {"ok", "raises"} :
         LET ins == InsertUser(users[hook[r].app], hook[r].chat, UsernameOf(r))
             injected == commit = "raises" \/ send = "raises"
         IN /\ (commit = "raises" \/ ins.raised) => send = "ok"
            /\ commit = "raises" => ~ins.raised
            /\ injected => faults < MaxFaults
            /\ faults' = IF injected THEN faults + 1 ELSE faults
            /\ users' = IF commit = "ok" THEN [users EXCEPT ![hook[r].app] = ins.rows] ELSE users
            /\ Respond(r, Registered(hook[r].app, injected \/ ins.raised))

Post == \E r \in Requests, app \in Apps : Arrive(r, app)

NextHook ==
  \/ Post
  \/ HookInitDb
  \/ HookParse
  \/ HookHandle
  \/ HookRegister

SpecHook == Init /\ [][NextHook]_vars


(***************************************************************************)
(* Shorthands for the claims.                                              *)
(***************************************************************************)
AfterTheLoop == task = "search" /\ pc = "post"

\* a step that makes an external call for the current phrase
ACall == task = "search" /\ pc = "loop" /\ calls' = calls + 1

\* a step that handles the end of the current phrase's retry loop
AFinish == AfterTheLoop /\ pc' # "post"

\* the current phrase was updated from the response in response_data
AUpdated ==
  /\ store' = [store EXCEPT ![phrases[i]] = Enriched(store[phrases[i]], response_data)]
  /\ store'[phrases[i]].total = response_data.total
  /\ store'[phrases[i]].preset = response_data.preset
  /\ updated_count' = updated_count + 1
  /\ errors' = errors

\* the current phrase was recorded as failed and left as it was
AFailed ==
  /\ store' = store
  /\ updated_count' = updated_count
  /\ Len(errors') = Len(errors) + 1
  /\ errors'[Len(errors')].phrase = phrases[i]

(***************************************************************************)
(* C1 (as stated): for a phrase whose endpoint always returns total = 0    *)
(* the retry loop makes exactly 5 external calls and then accepts the last *)
(* response.                                                               *)
(***************************************************************************)
C1_FiveCallsThenAccept ==
  (AfterTheLoop /\ endpoint = "zero_total") => (calls = 5 /\ success)

(***************************************************************************)
(* C1 (amended): with total = 0 at every call, the first 5 responses each  *)
(* use one total-retry and none of them is accepted; from the 6th call on  *)
(* the first response with a non-zero preset is accepted and the phrase is *)
(* updated from it (6 to 8 calls); when the 6th, 7th and 8th responses     *)
(* have preset = 0 too, the loop ends after 8 calls without success and    *)
(* the phrase is recorded as failed.                                       *)
(***************************************************************************)
C1_ZeroTotalStep ==
  (AfterTheLoop /\ endpoint = "zero_total") =>
    /\ total_retries = max_total_retries
    /\ calls = max_total_retries + preset_retries + (IF success THEN 1 ELSE 0)
    /\ calls \in 6..8
    /\ success <=> last.preset # 0
    /\ ~success => calls = 8
    /\ response_data = last
    /\ (AFinish /\ faults' = faults) => IF success THEN AUpdated ELSE AFailed

C1_ZeroTotalRetries == [][C1_ZeroTotalStep]_vars

C1_Witness ==
  AfterTheLoop /\ endpoint = "zero_total" /\ calls = 6 /\ success /\ last = Answer(0, 3)

(***************************************************************************)
(* C2 (as stated): when both retry budgets are exhausted for a phrase, the *)
(* last fetched response is accepted as it is: written to the phrase and   *)
(* counted as updated, not as failed.                                      *)
(***************************************************************************)
C2_ExhaustedStep ==
  (AFinish /\ total_retries = max_total_retries /\ preset_retries = max_preset_retries
     /\ faults' = faults)
    => AUpdated

C2_ExhaustedAccepted == [][C2_ExhaustedStep]_vars

(***************************************************************************)
(* C9: the retry loop stops at the first response whose total and preset   *)
(* are both non-zero: that response is accepted, no further external call  *)
(* is made for the phrase, and the phrase is updated from it.  With total  *)
(* non-zero throughout and preset = 0 at the first two calls and non-zero  *)
(* at the third, exactly 3 calls are made.                                 *)
(***************************************************************************)
C9_StopStep ==
  /\ (ACall /\ last'.err = "none" /\ last'.total # 0 /\ last'.preset # 0)
       => (success' /\ pc' = "post" /\ response_data' = last')
  /\ AfterTheLoop => (calls' = calls \/ calls' = 0)
  /\ (AFinish /\ success /\ faults' = faults) => AUpdated
  /\ (AfterTheLoop /\ endpoint = "late_preset")
       => (calls = 3 /\ success /\ last = Answer(7, 3) /\ response_data = last)

C9_StopsAtFirstGoodResponse == [][C9_StopStep]_vars

C9_Witness ==
  AfterTheLoop /\ endpoint = "late_preset" /\ calls = 3 /\ success /\ preset_retries = 2

(***************************************************************************)
(* C10: a network-level or decode-level failure of an external call ends   *)
(* the retrying for the phrase at once, whatever budget remains; the       *)
(* phrase's stored fields stay as they were, the phrase is recorded as     *)
(* failed with an error message, and the task goes on to the next phrase.  *)
(***************************************************************************)
CallFailed == last.err \in {"RequestException", "JSONDecodeError"}

C10_FailureStep ==
  /\ (ACall /\ last'.err \in {"RequestException", "JSONDecodeError"})
       => /\ pc' = "post"
          /\ ~success'
          /\ store' = store
          /\ errors' = Append(errors, ErrorEntry(phrases[i], last'.err))
  /\ (AfterTheLoop /\ CallFailed)
       => /\ ~success
          /\ calls' = calls \/ calls' = 0
          /\ AFinish => /\ AFailed
                        /\ IF i < Len(phrases)
                             THEN task' = "search" /\ i' = i + 1 /\ pc' = "loop" /\ calls' = 0
                             ELSE task' = "idle" /\ summary'.kind = "done"

C10_FailureEndsRetrying == [][C10_FailureStep]_vars

C10_Witness ==
  /\ task = "search" /\ pc = "loop" /\ i = 2 /\ calls = 0
  /\ Len(errors) = 2
  /\ errors[1] = ErrorEntry(phrases[1], "JSONDecodeError")
  /\ store[phrases[1]].total = 0


(***************************************************************************)
(* Shorthands for the claims about the import.                             *)
(***************************************************************************)
\* a step that processes one row of the table
ARow == task = "import" /\ processed_count' = processed_count + 1

Shoes == <<"shoes">>
Hats == <<"hats">>

\* a text that is not a number: some character is neither a digit nor white space
NonNumeric(t) ==
  \E k \in 1..Len(t) : t[k] \notin {"0", "1", "2", "3", "4", "5", "6", "7", "8", "9", " "}

ImportReturned == task = "idle" /\ importResult.kind = "returned"

\* the iterated rows whose trimmed phrase is p
RowsOf(p) == {k \in 1..Len(df) : CellText(df[k].phrase_raw) = p}

\* those of them whose count cell is a number or missing
GoodRowsOf(p) ==
  {k \in RowsOf(p) : df[k].qntyPerDay_raw.k = "str" => ~NonNumeric(df[k].qntyPerDay_raw.s)}

LastOf(S) == CHOOSE k \in S : \A j \in S : j <= k

DefaultEnrichment(r) ==
  r.preset = 0 /\ r.normQuery = NULL /\ r.auto = 0 /\ r.auction = 0 /\ r.total = 0

(***************************************************************************)
(* C3 (as stated): a row with a non-empty phrase whose count cell is       *)
(* non-numeric or missing is persisted with qntyPerDay = 0 and counted as  *)
(* added or updated.                                                       *)
(***************************************************************************)
C3_CoercedStep ==
  (ARow /\ faults' = faults) =>
    LET row == df'[processed_count']
        phrase == CellText(row.phrase_raw)
        c == row.qntyPerDay_raw
    IN (phrase # <<>> /\ (c.k = "nan" \/ (c.k = "str" /\ NonNumeric(c.s))))
         => /\ phrase \in DOMAIN store'
            /\ store'[phrase].qntyPerDay = 0
            /\ phrases_added' + phrases_updated' = phrases_added + phrases_updated + 1

C3_BadCountStoredAsZero == [][C3_CoercedStep]_vars

(***************************************************************************)
(* C3 (amended): a row with a non-empty phrase whose count cell is missing *)
(* is persisted with qntyPerDay = 0 and counted as added or updated; a row *)
(* whose count cell is a non-numeric text is skipped as a row error: the   *)
(* store and the counts stay as they were and the import goes on.          *)
(***************************************************************************)
C3_AmendedStep ==
  (ARow /\ faults' = faults) =>
    LET row == df'[processed_count']
        phrase == CellText(row.phrase_raw)
        c == row.qntyPerDay_raw
    IN /\ (phrase # <<>> /\ c.k = "nan")
            => /\ phrase \in DOMAIN store'
               /\ store'[phrase] = NewPhrase(0, CellText(row.subject_raw))
               /\ phrases_added' + phrases_updated' = phrases_added + phrases_updated + 1
       /\ (phrase # <<>> /\ c.k = "str" /\ NonNumeric(c.s))
            => /\ store' = store
               /\ phrases_added' = phrases_added
               /\ phrases_updated' = phrases_updated
               /\ importResult'.kind # "raised"
               /\ processed_count' < total_rows => task' = "import"

C3_MissingZeroBadSkipped == [][C3_AmendedStep]_vars

C3_Witness ==
  /\ ImportReturned
  /\ faults = 0
  /\ store0 = EmptyStore
  /\ df = <<RowHatsBad, RowHatsNoCount>>
  /\ store = (Hats :> NewPhrase(0, <<"accessories">>))
  /\ phrases_added = 1

(***************************************************************************)
(* C4 (as stated): rows whose trimmed phrase is empty are skipped and not  *)
(* counted in the returned triple: the table shoes/100, empty/5, hats/bad  *)
(* imported into an empty scope returns added = 2, updated = 0,            *)
(* total_processed = 2 with exactly 2 rows persisted.                      *)
(***************************************************************************)
ExampleRun == ImportReturned /\ faults = 0 /\ store0 = EmptyStore /\ df = ExampleTable

C4_ExampleTwoRows ==
  ExampleRun =>
    /\ importResult = Returned(2, 0, 2)
    /\ Cardinality(DOMAIN store) = 2

(***************************************************************************)
(* C4 (amended): every row whose trimmed phrase is empty is skipped (no    *)
(* store change, not an error, not counted in added or updated); the       *)
(* returned total_processed counts every iterated row, the skipped ones    *)
(* included.  The table shoes/100, empty/5, hats/bad imported into an      *)
(* empty scope returns added = 1, updated = 0, total_processed = 3 with    *)
(* exactly 1 row persisted (shoes with qntyPerDay = 100): hats/bad is      *)
(* skipped as a row error.                                                 *)
(***************************************************************************)
C4_AmendedStep ==
  /\ (ARow /\ CellText(df'[processed_count'].phrase_raw) = <<>>)
       => /\ store' = store
          /\ phrases_added' = phrases_added
          /\ phrases_updated' = phrases_updated
          /\ faults' = faults
          /\ importResult'.kind # "raised"
  /\ ImportReturned' => importResult'.total = total_rows' /\ Len(df') = total_rows'
  /\ ExampleRun'
       => /\ importResult' = Returned(1, 0, 3)
          /\ store' = (Shoes :> NewPhrase(100, <<"footwear">>))

C4_EmptySkippedAllCounted == [][C4_AmendedStep]_vars

C4_Witness == ExampleRun /\ importResult = Returned(1, 0, 3) /\ DOMAIN store = {Shoes}

(***************************************************************************)
(* C5 (as stated): after import, enrichment, import, a phrase that was     *)
(* stored and appears again in the second import ends with qntyPerDay and  *)
(* subject of the new row and with preset = 0, normQuery = null, auto = 0, *)
(* auction = 0, total = 0, and is counted in updated.                      *)
(***************************************************************************)
C5_ReimportResets ==
  (ImportReturned /\ faults = 0) =>
    \A p \in DOMAIN store0 :
      (~DefaultEnrichment(store0[p]) /\ RowsOf(p) # {}) =>
        /\ DefaultEnrichment(store[p])
        /\ store[p].subject = CellText(df[LastOf(RowsOf(p))].subject_raw)
        /\ phrases_updated >= Cardinality(RowsOf(p))

(***************************************************************************)
(* C5 (amended): the same, for the rows that are processed without a row   *)
(* error.  A stored phrase that appears again in rows whose count cell is  *)
(* a number or missing ends as a fresh row made from the last such row     *)
(* (its qntyPerDay and subject, default enrichment fields), and each such  *)
(* row is counted in updated, not in added.  A stored phrase that appears  *)
(* again only in rows with a non-numeric count keeps all its fields, the   *)
(* enrichment included, and is not counted.                                *)
(***************************************************************************)
C5_ReimportResetsGoodRows ==
  (ImportReturned /\ faults = 0) =>
    /\ \A p \in DOMAIN store0 :
         IF GoodRowsOf(p) # {}
           THEN LET row == df[LastOf(GoodRowsOf(p))]
                IN /\ DefaultEnrichment(store[p])
                   /\ store[p].subject = CellText(row.subject_raw)
                   /\ row = RowShoes => store[p].qntyPerDay = 100
                   /\ row = RowShoesNum => store[p].qntyPerDay = 5
                   /\ row = RowHatsNoCount => store[p].qntyPerDay = 0
           ELSE store[p] = store0[p]
    /\ phrases_updated >= Cardinality(UNION {GoodRowsOf(p) : p \in DOMAIN store0})
    /\ phrases_added = Cardinality(DOMAIN store \ DOMAIN store0)

C5_Witness ==
  /\ ImportReturned
  /\ faults = 0
  /\ Shoes \in DOMAIN store0
  /\ store0[Shoes].total = 7 /\ store0[Shoes].auction = 2 /\ store0[Shoes].qntyPerDay = 100
  /\ df = <<RowShoesNum>>
  /\ store[Shoes] = NewPhrase(5, <<>>)
  /\ phrases_updated = 1 /\ phrases_added = 0

(***************************************************************************)
(* C6: every import of at least one row that runs to completion sends the  *)
(* user-facing progress notification (rows processed, added, updated) at   *)
(* completion, whatever the last row is.                                   *)
(***************************************************************************)
C6_FinalNotification ==
  (ImportReturned /\ total_rows >= 1) =>
    /\ importMsgs # <<>>
    /\ importMsgs[Len(importMsgs)] = ProgressMsg(total_rows, phrases_added, phrases_updated)

(***************************************************************************)
(* C7: a store-level error (failed lookup, flush or commit) while a row is *)
(* processed aborts the import: no later row is processed, the counts so   *)
(* far are reported to the user and the failure is raised to the caller.   *)
(***************************************************************************)
C7_AbortStep ==
  (ARow /\ faults' > faults) =>
    /\ task' = "idle"
    /\ importResult'.kind = "raised"
    /\ importMsgs' = Append(importMsgs, AbortMsg(processed_count', phrases_added', phrases_updated'))

C7_StoreErrorAborts == [][C7_AbortStep]_vars


(***************************************************************************)
(* C8: the webhook handler answers every POST with the acknowledgment and  *)
(* HTTP 200, whatever the body and whatever happens inside (database       *)
(* initialisation failure, store error, download failure, exception).      *)
(***************************************************************************)
C8_AlwaysAcknowledged == response # NoReply => response.status = 200

(***************************************************************************)
(* C11: for every table with fewer than 6 columns the import fails with    *)
(* the insufficient-columns error (ValueError) and the store is unchanged: *)
(* no row is inserted, replaced or deleted, no row of the table is         *)
(* iterated and no message is sent; the only effect on the database is     *)
(* that the (empty) table phrases_<chat_id> exists afterwards.  When the   *)
(* table lookup itself fails, the import fails with that error instead,    *)
(* the store unchanged as well.                                            *)
(***************************************************************************)
\* a step that starts process_phrases_from_xlsx
AnImportStart == task = "idle" /\ (task' = "import" \/ importResult'.kind # "none")

C11_Step ==
  (AnImportStart /\ columns' < 6) =>
    /\ store' = store
    /\ task' = "idle"
    /\ df' = <<>> /\ processed_count' = 0 /\ importMsgs' = <<>>
    /\ importResult'.kind = "raised"
    /\ importResult'.added = 0 /\ importResult'.updated = 0
    /\ faults' = faults => (importResult'.error = "ValueError" /\ phraseTable')

C11_TooFewColumnsRejected == [][C11_Step]_vars

C11_Witness ==
  /\ task = "idle"
  /\ columns = 5
  /\ importResult = Raised("ValueError", 0, 0, 0)
  /\ Cardinality(DOMAIN store) = 2
  /\ store0 = store
  /\ store[Shoes].total = 7

(***************************************************************************)
(* C12: clear_phrases_task deletes all phrase rows of the scope in one     *)
(* operation and reports the deleted count; on an already empty scope it   *)
(* changes nothing, sends the "already empty" notice (no row deleted) and  *)
(* reports no error, so a second clear right after a clear leaves the same *)
(* empty state as the first.                                               *)
(***************************************************************************)
\* a step of clear_phrases_task
AClear == task = "idle" /\ clearResult'.kind # "none"

C12_Step ==
  /\ (AClear /\ faults' = faults) =>
       /\ store' = EmptyStore
       /\ phraseTable'
       /\ clearResult' = IF store = EmptyStore THEN AlreadyEmpty
                         ELSE Cleared(Cardinality(DOMAIN store))
       /\ clearResult.kind \in {"cleared", "already_empty"} =>
            (store' = store /\ clearResult' = AlreadyEmpty)
  /\ clearResult'.kind \in {"cleared", "already_empty"} => store' = EmptyStore
  /\ clearResult'.kind = "cleared" => clearResult'.deleted >= 1

FreshFrom(row) ==
  CASE row = RowShoes -> NewPhrase(100, <<"footwear">>)
    [] row = RowShoesNum -> NewPhrase(5, <<>>)
    [] row = RowHatsNoCount -> NewPhrase(0, <<"accessories">>)

\* the store is store0 overwritten by the valid rows of df, in order
RowsPersisted ==
  /\ \A p \in {Shoes, Hats} :
       IF GoodRowsOf(p) # {}
         THEN p \in DOMAIN store /\ store[p] = FreshFrom(df[LastOf(GoodRowsOf(p))])
       ELSE IF p \in DOMAIN store0 THEN p \in DOMAIN store /\ store[p] = store0[p]
       ELSE p \notin DOMAIN store
  /\ DOMAIN store \subseteq {Shoes, Hats}

C13_Step ==
  /\ (ARow /\ faults' = faults) =>
       /\ importResult'.kind # "raised"
       /\ processed_count' < total_rows => task' = "import"
       /\ \A p \in DOMAIN store :
            p \in DOMAIN store' /\ (p # CellText(df'[processed_count'].phrase_raw) => store'[p] = store[p])
  /\ (ARow /\ importResult'.kind # "raised") =>
       /\ DOMAIN store \subseteq DOMAIN store'
       /\ processed_count' < total_rows => task' = "import"
  /\ ((task' = "import" \/ ImportReturned') /\ faults' = 0) => RowsPersisted'

C13_RowErrorSkipsOnlyThatRow == [][C13_Step]_vars

C13_Witness ==
  /\ ImportReturned
  /\ faults = 0
  /\ store0 = EmptyStore
  /\ df = <<RowShoes, RowHatsBad, RowHatsNoCount>>
  /\ store = (Shoes :> NewPhrase(100, <<"footwear">>) @@ Hats :> NewPhrase(0, <<"accessories">>))
  /\ importResult = Returned(2, 0, 3)

(***************************************************************************)
(* C14: search_ads_task commits once per successfully fetched phrase.  A   *)
(* phrase whose response was accepted is written and committed in the step *)
(* that ends its retry loop; no step of the task changes the row of any    *)
(* other phrase, so every phrase updated earlier keeps its auto, auction,  *)
(* total, normQuery and preset when a later phrase fails, hits a store     *)
(* error, or the task ends abruptly.  After a store error on one phrase    *)
(* (failed commit, rolled back) that phrase is left as it was, recorded as *)
(* an error, and the task continues with the next phrase.                  *)
(***************************************************************************)
\* the commit of the current phrase raised and was rolled back
ACommitFailed == AFinish /\ faults' = faults + 1

C14_Step ==
  /\ task = "search" =>
       /\ DOMAIN store' = DOMAIN store
       /\ \A p \in DOMAIN store : p # phrases[i] => store'[p] = store[p]
       /\ (store' # store) => (AFinish /\ success /\ AUpdated)
  /\ (AFinish /\ success /\ faults' = faults) => AUpdated
  /\ ACommitFailed =>
       /\ store' = store
       /\ updated_count' = updated_count
       /\ errors' = Append(errors, ErrorEntry(phrases[i], "data"))
       /\ IF i < Len(phrases)
            THEN task' = "search" /\ i' = i + 1 /\ pc' = "loop" /\ calls' = 0
            ELSE task' = "idle" /\ summary'.kind = "done" /\ summary'.updated = updated_count
  /\ (AFinish /\ faults' > faults + 1) => (store' = store /\ task' = "idle")

C14_CommitPerPhrase == [][C14_Step]_vars

C14_Witness ==
  /\ task = "idle"
  /\ summary = [kind |-> "done", processed |-> 2, updated |-> 1, errors |-> 1]
  /\ faults = 1
  /\ errors = <<ErrorEntry(phrases[2], "data")>>
  /\ store[phrases[1]].total = 7 /\ store[phrases[1]].preset = 3 /\ store[phrases[1]].auction = 2
  /\ DefaultEnrichment(store[phrases[2]])

(***************************************************************************)
(* C15: under any interleaving of webhook requests, concurrent /start      *)
(* requests from the same chat included, the users table holds at most one *)
(* row per chat_id; a row is created by a /start (in app.py: by any        *)
(* message with a chat id) from a chat_id that has no row, and a row that  *)
(* exists is never updated or deleted.                                     *)
(***************************************************************************)
OneRowPerChat ==
  \A a \in Apps : \A j, k \in 1..Len(users[a]) :
    users[a][j].chat_id = users[a][k].chat_id => j = k

\* request r inserts its user row in this step
Inserts(r) ==
  /\ hook[r].pc = "register"
  /\ hook[r].chat \notin ChatIds(users[hook[r].app])
  /\ users' = [users EXCEPT ![hook[r].app] =
                 Append(@, [chat_id |-> hook[r].chat, username |-> UsernameOf(r)])]

C15_Step ==
  /\ OneRowPerChat'
  /\ \A a \in Apps :
       /\ Len(users'[a]) >= Len(users[a])
       /\ SubSeq(users'[a], 1, Len(users[a])) = users[a]
  /\ users' # users => \E r \in Requests : Inserts(r)
  /\ \A r \in Requests :
       /\ (hook[r].pc = "register" /\ faults' = faults /\ hook'[r].pc = "idle")
            => hook[r].chat \in ChatIds(users'[hook[r].app])
       /\ (hook[r].pc = "handle" /\ hook'[r].pc = "register")
            => /\ hook'[r].chat \notin ChatIds(users[hook[r].app])
               /\ hook[r].app = "flask_app" => hook[r].body = "start"
       /\ (hook[r].pc = "handle" /\ hook'[r].pc = "idle" /\ faults' = faults
             /\ (hook[r].app = "app" \/ hook[r].body = "start"))
            => ChatIds(users[hook[r].app]) # {}

C15_OneUserRowPerChat == [][C15_Step]_vars

C15_Witness ==
  /\ users["flask_app"] = <<[chat_id |-> "c1", username |-> UsernameOf(2)]>>
  /\ hook[1].app = "flask_app"
  /\ hook[1].pc = "register"
  /\ hook[1].chat = "c1"

(***************************************************************************)
(* C16: at the end of search_ads_task each phrase that was not updated has *)
(* exactly one entry in the errors list: the error count of the final      *)
(* summary is the number of failed phrases, and updated_count plus the     *)
(* number of error entries is the number of phrases processed.             *)
(***************************************************************************)
C16_OneErrorPerFailedPhrase ==
  summary.kind = "done" =>
    /\ summary.errors = Len(errors)
    /\ summary.updated + summary.errors = summary.processed
    /\ \A j, k \in 1..Len(errors) : errors[j].phrase = errors[k].phrase => j = k

(***************************************************************************)
(* C17: the counts of process_phrases_from_xlsx match what was committed:  *)
(* a row adds 1 to added exactly when its commit inserted a phrase that    *)
(* was absent, a row whose store call failed (rolled back) adds nothing to *)
(* added or updated, and the returned triple carries these counts.         *)
(***************************************************************************)
C17_CountStep ==
  ARow =>
    LET p == CellText(df'[processed_count'].phrase_raw)
    IN /\ phrases_added' - phrases_added
            = (IF p \notin DOMAIN store /\ p \in DOMAIN store' THEN 1 ELSE 0)
       /\ phrases_updated' - phrases_updated \in {0, 1}
       /\ phrases_updated' # phrases_updated => (p \in DOMAIN store /\ p \in DOMAIN store')
       /\ faults' > faults =>
            (phrases_added' = phrases_added /\ phrases_updated' = phrases_updated)
       /\ ImportReturned' =>
            /\ importResult'.added = Cardinality(DOMAIN store' \ DOMAIN store0')
            /\ importResult'.updated = phrases_updated'

C17_CountsMatchCommits == [][C17_CountStep]_vars

(***************************************************************************)
(* C18: for every sequence of endpoint responses and failures the retry    *)
(* loop of a phrase ends after at most 8 external calls: total_retries     *)
(* never exceeds 5, preset_retries never exceeds 3, and every iteration    *)
(* increments exactly one of them, or sets success, or breaks on a failed  *)
(* call, the last two ending the loop.  So the task, once started, reaches *)
(* its end (final summary) for every phrase list.                          *)
(***************************************************************************)
C18_CallStep ==
  /\ total_retries' <= max_total_retries
  /\ preset_retries' <= max_preset_retries
  /\ calls' <= max_total_retries + max_preset_retries
  /\ ACall =>
       /\ calls' = total_retries' + preset_retries'
                     + (IF success' \/ last'.err # "none" THEN 1 ELSE 0)
       /\ \/ total_retries' = total_retries + 1 /\ preset_retries' = preset_retries
                /\ ~success' /\ last'.err = "none"
          \/ total_retries' = total_retries /\ preset_retries' = preset_retries + 1
                /\ ~success' /\ last'.err = "none"
          \/ total_retries' = total_retries /\ preset_retries' = preset_retries
                /\ success' /\ last'.err = "none" /\ pc' = "post"
          \/ total_retries' = total_retries /\ preset_retries' = preset_retries
                /\ ~success' /\ last'.err # "none" /\ pc' = "post"
  /\ AFinish => (i' = i + 1 \/ (task' = "idle" /\ summary'.kind \in {"done", "critical"}))

C18_RetryLoopTerminates ==
  /\ [][C18_CallStep]_vars
  /\ (task = "search") ~> (task = "idle" /\ summary.kind \in {"done", "critical"})

C18_Witness ==
  /\ AfterTheLoop
  /\ i = 2
  /\ calls = 8
  /\ total_retries = max_total_retries /\ preset_retries = max_preset_retries
  /\ ~success

====
